---------------------------- MODULE Spec2Model ----------------------------
(***************************************************************************)
(* Model of the aklp-agent translation pipeline: CommandRouter (text       *)
(* normalisation), PatternMatchingSystem (intent matching, filter          *)
(* extraction, command building), ComplexCommandProcessor (the LLM         *)
(* fallback adapter), ExecutorService.execute_command (request and usage   *)
(* logging), the /execute endpoint (the boundary response),                *)
(* CommandExecutor.execute (a shell subprocess under a timeout) and        *)
(* ExecutorService.execute_kubectl (execution and its log).                *)
(*                                                                         *)
(* Strings are sequences of characters.  An ASCII character is the         *)
(* one-character string itself; a Hangul syllable is written as its        *)
(* romanisation in capitals with at least two letters ("PA" "DEU" is the   *)
(* Korean word for pod, "II" and "EE" are the syllables i and e), so it is *)
(* never confused with an ASCII capital; the backquote is written "bq".    *)
(* Python's None is the record None; a Python str held where None is       *)
(* possible is wrapped by Str.                                             *)
(***************************************************************************)
EXTENDS Integers, Sequences, FiniteSets, TLC

VARIABLES
    pc,            \* position of the request handler
    raw_command,   \* CommandRequest.raw_command of the request in progress
    normalized,    \* CommandRouter.normalize_command(raw_command)
    best_match,    \* the intent key matched by process_command, or None
    calls,         \* max_output_tokens of every client.responses.parse call made
    responses,     \* what each of those calls returned (or the exception it threw)
    usage_info,    \* _call_responses' local usage_info
    generated,     \* what process_command returned to execute_command
    request_log_id,\* the id _log_request returned to execute_command, or None
    result,        \* how execute_command ended: a return value or an exception
    request_logs,  \* table agent_request_logs
    usage_logs,    \* table api_usage_logs
    http,          \* the endpoint's outcome: a CommandResponse, or None
    exec_pc,       \* position of CommandExecutor.execute
    exec_command,  \* execute's command argument
    exec_timeout,  \* execute's timeout argument
    elapsed,       \* time units wait_for has been waiting
    subprocess,    \* the process create_subprocess_shell started, or None
    launched,      \* number of subprocesses started
    executed,      \* how execute ended: a CommandExecutionResult or an exception
    invocations,   \* the locals of each of the concurrent rule-path invocations
    kubectl_pc,    \* position of ExecutorService.execute_kubectl
    kubectl_args,  \* the arguments of the execute_kubectl call, or None
    kubectl_result \* how execute_kubectl ended: a result or an exception

\* the variables of CommandExecutor.execute
execVars == <<exec_pc, exec_command, exec_timeout, elapsed, subprocess, launched,
              executed>>

\* the variables of the concurrent rule-path invocations
concVars == <<invocations>>

\* the variables of ExecutorService.execute_kubectl
kubectlVars == <<kubectl_pc, kubectl_args, kubectl_result>>

vars == <<pc, raw_command, normalized, best_match, calls, responses, usage_info,
          generated, request_log_id, result, request_logs, usage_logs, http,
          exec_pc, exec_command, exec_timeout, elapsed, subprocess, launched,
          executed, invocations, kubectl_pc, kubectl_args, kubectl_result>>

----------------------------------------------------------------------------
(* Python values *)

None == [type |-> "None"]

Str(s) == [type |-> "str", value |-> s]

----------------------------------------------------------------------------
(* Characters *)

Hangul ==
    {"PA", "DEU", "MOK", "ROK", "SEO", "BI", "SEU", "SANG", "TAE", "RO", "GEU",
     "JO", "HOE", "JOM", "BO", "YEO", "JWO", "HWAK", "IN", "HAE", "REUL", "MO",
     "DEUN", "NE", "IM", "PE", "II", "KEON", "TE", "NEO", "AEP", "REUM", "RI",
     "TEU", "JEON", "CHE", "DEUL", "BU", "TAK", "BWA", "AL", "RYEO", "JUL",
     "RAE", "BOL", "JU", "SE", "YO", "EUL", "GA", "EUN", "NEUN", "EE", "EU",
     "WA", "GWA", "DO", "MAN", "KKA", "JI", "TEO", "GI", "NO", "UI"}

AsciiUpper ==
    <<"A", "B", "C", "D", "E", "F", "G", "H", "I", "J", "K", "L", "M",
      "N", "O", "P", "Q", "R", "S", "T", "U", "V", "W", "X", "Y", "Z">>

AsciiLower ==
    <<"a", "b", "c", "d", "e", "f", "g", "h", "i", "j", "k", "l", "m",
      "n", "o", "p", "q", "r", "s", "t", "u", "v", "w", "x", "y", "z">>

Digits == {"0", "1", "2", "3", "4", "5", "6", "7", "8", "9"}

Range(f) == {f[i] : i \in DOMAIN f}

\* \s of the re module
IsSpace(c) == c \in {" ", "\n", "\t"}

\* \w of the re module on str patterns (Unicode letters, digits, underscore)
IsWord(c) == c \in Hangul \cup Range(AsciiUpper) \cup Range(AsciiLower) \cup Digits \cup {"_"}

\* the character class [ga-hih a-zA-Z0-9_-] of the filter patterns
IsValueChar(c) ==
    c \in Hangul \cup Range(AsciiUpper) \cup Range(AsciiLower) \cup Digits \cup {"_", "-"}

\* str.lower() on one character
LowerChar(c) ==
    IF \E i \in DOMAIN AsciiUpper : AsciiUpper[i] = c
    THEN AsciiLower[CHOOSE i \in DOMAIN AsciiUpper : AsciiUpper[i] = c]
    ELSE c

----------------------------------------------------------------------------
(* str methods *)

Min(S) == CHOOSE x \in S : \A y \in S : x <= y

lower(s) == [i \in DOMAIN s |-> LowerChar(s[i])]

\* s[i:j+1] with the empty string for an empty range
Slice(s, i, j) == IF i > j THEN <<>> ELSE SubSeq(s, i, j)

strip(s) ==
    LET keep == {i \in 1..Len(s) : ~IsSpace(s[i])}
    IN  IF keep = {} THEN <<>>
        ELSE Slice(s, Min(keep), CHOOSE x \in keep : \A y \in keep : y <= x)

\* s[i-1:].startswith(p)
StartsWithAt(s, i, p) == i + Len(p) - 1 <= Len(s) /\ SubSeq(s, i, i + Len(p) - 1) = p

startswith(s, p) == StartsWithAt(s, 1, p)

\* p in s, for a non-empty p
Contains(s, p) == \E i \in 1..Len(s) : StartsWithAt(s, i, p)

\* " ".join(parts)
RECURSIVE join(_)
join(parts) ==
    IF Len(parts) = 0 THEN <<>>
    ELSE IF Len(parts) = 1 THEN parts[1]
    ELSE parts[1] \o <<" ">> \o join(Tail(parts))

\* the end of the greedy \s* that starts at position j
SkipSpace(s, j) ==
    CHOOSE k \in j..(Len(s) + 1) :
        /\ \A q \in j..(k - 1) : IsSpace(s[q])
        /\ (k = Len(s) + 1 \/ ~IsSpace(s[k]))

----------------------------------------------------------------------------
(* CommandRouter.normalize_command *)

\* the alternatives of the endings pattern, in the pattern's order
Endings ==
    <<<<"BU", "TAK", "HAE">>, <<"BWA", "JWO">>, <<"BO", "YEO", "JWO">>, <<"HWAK", "IN", "HAE", "JWO">>, <<"AL", "RYEO", "JWO">>, <<"JUL", "RAE">>,
      <<"BOL", "RAE">>, <<"JU", "SE", "YO">>, <<"HAE", "BWA">>, <<"JWO">>, <<"JOM">>>>

\* the alternatives of the particle pattern
Particles ==
    {<<"EUL">>, <<"REUL">>, <<"II">>, <<"GA">>, <<"EUN">>, <<"NEUN">>, <<"EE">>, <<"EE", "SEO">>,
     <<"EU", "RO">>, <<"RO">>, <<"WA">>, <<"GWA">>, <<"DO">>, <<"MAN">>, <<"KKA", "JI">>, <<"BU", "TEO">>}

\* endings.sub("", s): the leftmost position where an alternative, then \s*,
\* then the end of the string match; the match runs to the end of the string,
\* so nothing after it can match again.
EndingsSub(s) ==
    LET hits == {i \in 1..Len(s) :
                    \E k \in DOMAIN Endings :
                        /\ StartsWithAt(s, i, Endings[k])
                        /\ SkipSpace(s, i + Len(Endings[k])) = Len(s) + 1}
    IN  IF hits = {} THEN s ELSE Slice(s, 1, Min(hits) - 1)

\* \b at the left of position i (between s[i-1] and s[i])
WordBoundary(s, i) ==
    LET before == i > 1 /\ i - 1 <= Len(s) /\ IsWord(s[i - 1])
        after  == i >= 1 /\ i <= Len(s) /\ IsWord(s[i])
    IN  before # after

\* the span i..j is a match of \b(particle)\b
ParticleMatch(s, i, j) ==
    /\ i <= j /\ j <= Len(s)
    /\ SubSeq(s, i, j) \in Particles
    /\ WordBoundary(s, i)
    /\ WordBoundary(s, j + 1)

\* particle.sub("", s): scanning from the left, a match is dropped and the
\* scan goes on after it.  Every particle is made of word characters, so the
\* alternative that matches at i is the one that reaches the next boundary.
RECURSIVE ParticleSubFrom(_, _)
ParticleSubFrom(s, i) ==
    IF i > Len(s) THEN <<>>
    ELSE LET ends == {j \in i..Len(s) : ParticleMatch(s, i, j)}
         IN  IF ends # {}
             THEN ParticleSubFrom(s, Min(ends) + 1)
             ELSE <<s[i]>> \o ParticleSubFrom(s, i + 1)

ParticleSub(s) == ParticleSubFrom(s, 1)

\* re.sub(r"\s+", " ", s)
RECURSIVE CollapseSpaceFrom(_, _)
CollapseSpaceFrom(s, i) ==
    IF i > Len(s) THEN <<>>
    ELSE IF IsSpace(s[i])
         THEN <<" ">> \o CollapseSpaceFrom(s, SkipSpace(s, i))
         ELSE <<s[i]>> \o CollapseSpaceFrom(s, i + 1)

CollapseSpace(s) == CollapseSpaceFrom(s, 1)

normalize_command(raw) ==
    strip(CollapseSpace(ParticleSub(EndingsSub(lower(strip(raw))))))

----------------------------------------------------------------------------
(* PatternMatchingSystem *)

Kubectl == <<"k", "u", "b", "e", "c", "t", "l", " ">>

SIMPLE_COMMAND_DEFINITION ==
    << [intent_key |-> <<"p", "o", "d", "_", "l", "i", "s", "t">>,
        kubectl_template |-> <<<<"k", "u", "b", "e", "c", "t", "l", " ", "g", "e", "t", " ", "p", "o", "d", "s">>>>,
        keywords |-> <<<<"p", "o", "d", " ", "MOK", "ROK">>, <<"PA", "DEU", " ", "MOK", "ROK">>, <<"p", "o", "d", " ", "RI", "SEU", "TEU">>, <<"PA", "DEU", " ", "RI", "SEU", "TEU">>>>],
       [intent_key |-> <<"s", "e", "r", "v", "i", "c", "e", "_", "s", "t", "a", "t", "u", "s">>,
        kubectl_template |-> <<<<"k", "u", "b", "e", "c", "t", "l", " ", "g", "e", "t", " ", "s", "e", "r", "v", "i", "c", "e", "s">>>>,
        keywords |-> <<<<"SEO", "BI", "SEU", " ", "SANG", "TAE">>, <<"SEO", "BI", "SEU", " ", "MOK", "ROK">>, <<"s", "e", "r", "v", "i", "c", "e", " ", "SANG", "TAE">>, <<"SEO", "BI", "SEU", " ", "RI", "SEU", "TEU">>>>],
       \* the template is split at its {target} field
       [intent_key |-> <<"p", "o", "d", "_", "l", "o", "g", "s">>,
        kubectl_template |-> <<<<"k", "u", "b", "e", "c", "t", "l", " ", "l", "o", "g", "s", " ", "-", "f", " ", "-", "-", "t", "a", "i", "l", "=", "1", "0", " ">>, <<>>>>,
        keywords |-> <<<<"RO", "GEU", " ", "JO", "HOE">>, <<"l", "o", "g", " ", "HWAK", "IN">>, <<"RO", "GEU", " ", "BO", "GI">>, <<"RO", "GEU", "JOM">>>>] >>

\* dict.get(value, value) on CANONICAL_TARGET_MAP
CANONICAL_TARGET_MAP(value) ==
    CASE value \in {<<"PA", "DEU">>, <<"PA", "DEU", "DEUL">>, <<"p", "o", "d">>, <<"p", "o", "d", "s">>} -> <<"p", "o", "d">>
      [] value \in {<<"SEO", "BI", "SEU">>, <<"SEO", "BI", "SEU", "DEUL">>, <<"s", "e", "r", "v", "i", "c", "e">>, <<"s", "e", "r", "v", "i", "c", "e", "s">>} -> <<"s", "e", "r", "v", "i", "c", "e">>
      [] value \in {<<"RO", "GEU">>, <<"RO", "GEU", "DEUL">>, <<"l", "o", "g">>, <<"l", "o", "g", "s">>} -> <<"l", "o", "g", "s">>
      [] OTHER -> value

\* self.patterns[intent_key].search(command): an alternation of escaped keywords
PatternSearch(cmd_def, command) ==
    \E k \in DOMAIN cmd_def.keywords : Contains(command, cmd_def.keywords[k])

\* the marker alternatives of the filter patterns
NamespaceMarkers == <<<<"NE", "IM", "SEU", "PE", "II", "SEU">>, <<"n", "m">>, <<"n", "s">>>>

LabelMarkers == <<<<"AEP">>, <<"SEO", "BI", "SEU">>, <<"II", "REUM">>>>

ContainerMarkers == <<<<"KEON", "TE", "II", "NEO">>, <<"c">>>>

\* (mo-deun|jeon-che)\s*(ne-im-seu-pe-i-seu)
AllNamespacesSearch(command) ==
    \E i \in 1..Len(command) : \E a \in {<<"MO", "DEUN">>, <<"JEON", "CHE">>} :
        /\ StartsWithAt(command, i, a)
        /\ StartsWithAt(command, SkipSpace(command, i + Len(a)), <<"NE", "IM", "SEU", "PE", "II", "SEU">>)

\* (?:m1|m2|...)\s*([ga-hih a-zA-Z0-9_-]+) matched at position i: the position
\* where group 1 starts, or 0 when there is no match at i.  \s* gives back
\* nothing useful on backtracking: a space is no value character.
ValueStartAt(command, i, markers) ==
    LET ok == {k \in DOMAIN markers :
                  /\ StartsWithAt(command, i, markers[k])
                  /\ LET j == SkipSpace(command, i + Len(markers[k]))
                     IN  j <= Len(command) /\ IsValueChar(command[j])}
    IN  IF ok = {} THEN 0 ELSE SkipSpace(command, i + Len(markers[Min(ok)]))

\* pattern.search(command) and match.group(1), or None
FilterSearch(command, markers) ==
    LET hits == {i \in 1..Len(command) : ValueStartAt(command, i, markers) # 0}
    IN  IF hits = {} THEN None
        ELSE LET j == ValueStartAt(command, Min(hits), markers)
                 e == CHOOSE e \in j..Len(command) :
                        /\ \A q \in j..e : IsValueChar(command[q])
                        /\ (e = Len(command) \/ ~IsValueChar(command[e + 1]))
             IN  Str(SubSeq(command, j, e))

_canonicalize_target(value) ==
    IF value = None THEN None ELSE Str(CANONICAL_TARGET_MAP(value.value))

\* a dict with one more key
Put(d, k, v) == [x \in DOMAIN d \cup {k} |-> IF x = k THEN v ELSE d[x]]

\* dict.get(k)
Get(d, k) == IF k \in DOMAIN d THEN Str(d[k]) ELSE None

\* truth value of an Optional[str]
Truthy(v) == v # None /\ v.value # <<>>

EmptyDict == [x \in {} |-> <<>>]

\* _extract_filters with the namespace looked for whatever the scope marker
_extract_filters_NoElse(command) ==
    LET f0 == IF AllNamespacesSearch(command)
              THEN Put(EmptyDict, "all_namespaces", <<"t", "r", "u", "e">>)
              ELSE EmptyDict
        ns_match == FilterSearch(command, NamespaceMarkers)
        f1 == IF ns_match # None THEN Put(f0, "namespace", ns_match.value) ELSE f0
        label_match == FilterSearch(command, LabelMarkers)
        f2 == IF label_match # None THEN Put(f1, "label", label_match.value) ELSE f1
        container_match == FilterSearch(command, ContainerMarkers)
    IN  IF container_match # None
        THEN Put(f2, "container", container_match.value)
        ELSE f2

_extract_filters(command) ==
    LET f1 == IF AllNamespacesSearch(command)
              THEN Put(EmptyDict, "all_namespaces", <<"t", "r", "u", "e">>)
              ELSE LET ns_match == FilterSearch(command, NamespaceMarkers)
                   IN  IF ns_match # None
                       THEN Put(EmptyDict, "namespace", ns_match.value)
                       ELSE EmptyDict
        label_match == FilterSearch(command, LabelMarkers)
        f2 == IF label_match # None THEN Put(f1, "label", label_match.value) ELSE f1
        container_match == FilterSearch(command, ContainerMarkers)
    IN  IF container_match # None
        THEN Put(f2, "container", container_match.value)
        ELSE f2

\* str(v) in an f-string
Format(v) == IF v = None THEN <<"N", "o", "n", "e">> ELSE v.value

_build_command(intent_key, resource, filters) ==
    LET defs == {k \in DOMAIN SIMPLE_COMMAND_DEFINITION :
                    SIMPLE_COMMAND_DEFINITION[k].intent_key = intent_key}
    IN  IF defs = {} THEN Kubectl \o intent_key
        ELSE
        LET definition == SIMPLE_COMMAND_DEFINITION[Min(defs)]
            label_value == _canonicalize_target(Get(filters, "label"))
            base_cmd ==
                IF intent_key = <<"p", "o", "d", "_", "l", "i", "s", "t">>
                THEN IF Truthy(label_value)
                     THEN <<"k", "u", "b", "e", "c", "t", "l", " ", "g", "e", "t", " ", "p", "o", "d", "s", " ", "-", "l", " ", "a", "p", "p", "=">> \o label_value.value
                     ELSE <<"k", "u", "b", "e", "c", "t", "l", " ", "g", "e", "t", " ", "p", "o", "d", "s">>
                ELSE IF intent_key = <<"s", "e", "r", "v", "i", "c", "e", "_", "s", "t", "a", "t", "u", "s">>
                THEN IF Truthy(label_value)
                     THEN <<"k", "u", "b", "e", "c", "t", "l", " ", "g", "e", "t", " ", "s", "e", "r", "v", "i", "c", "e", "s", " ">> \o label_value.value
                     ELSE <<"k", "u", "b", "e", "c", "t", "l", " ", "g", "e", "t", " ", "s", "e", "r", "v", "i", "c", "e", "s">>
                ELSE IF intent_key = <<"p", "o", "d", "_", "l", "o", "g", "s">>
                THEN <<"k", "u", "b", "e", "c", "t", "l", " ", "l", "o", "g", "s", " ", "-", "f", " ", "-", "-", "t", "a", "i", "l", "=", "1", "0", " ">> \o Format(label_value)
                ELSE LET t == definition.kubectl_template
                         target == IF Truthy(label_value) THEN label_value.value ELSE <<>>
                     IN  IF Len(t) = 1 THEN t[1] ELSE t[1] \o target \o t[2]
            namespace == Get(filters, "namespace")
            container == Get(filters, "container")
            parts ==
                <<base_cmd>>
                \o (IF Truthy(namespace) THEN <<<<"-", "n", " ">> \o namespace.value>> ELSE <<>>)
                \o (IF Truthy(Get(filters, "all_namespaces")) THEN <<<<"-", "A">>>> ELSE <<>>)
                \o (IF Truthy(container) THEN <<<<"-", "c", " ">> \o container.value>> ELSE <<>>)
        IN  join(parts)

\* MatchIntent with the intent whose keyword stands leftmost in the text
MatchIntent_LeftmostKeyword(normalized_command) ==
    LET pos(k) == {i \in 1..Len(normalized_command) :
                     \E w \in DOMAIN SIMPLE_COMMAND_DEFINITION[k].keywords :
                        StartsWithAt(normalized_command, i,
                                     SIMPLE_COMMAND_DEFINITION[k].keywords[w])}
        hits == {k \in DOMAIN SIMPLE_COMMAND_DEFINITION : pos(k) # {}}
    IN  IF hits = {} THEN None
        ELSE Str(SIMPLE_COMMAND_DEFINITION[
                    CHOOSE k \in hits : \A j \in hits : Min(pos(k)) <= Min(pos(j))
                 ].intent_key)

\* process_command's loop over self.patterns: the first intent whose pattern hits
MatchIntent(normalized_command) ==
    LET hits == {k \in DOMAIN SIMPLE_COMMAND_DEFINITION :
                    PatternSearch(SIMPLE_COMMAND_DEFINITION[k], normalized_command)}
    IN  IF hits = {} THEN None
        ELSE Str(SIMPLE_COMMAND_DEFINITION[Min(hits)].intent_key)

\* process_command's intent_map
intent_map(key) ==
    CASE key = <<"p", "o", "d", "_", "l", "i", "s", "t">> -> [intent |-> "get", resource |-> Str(<<"p", "o", "d", "s">>)]
      [] key = <<"s", "e", "r", "v", "i", "c", "e", "_", "s", "t", "a", "t", "u", "s">> -> [intent |-> "get", resource |-> Str(<<"s", "e", "r", "v", "i", "c", "e", "s">>)]
      [] key = <<"p", "o", "d", "_", "l", "o", "g", "s">> -> [intent |-> "logs", resource |-> None]

\* DelegateRequired with the check left out
DelegateRequired_Missing(key, filters) == FALSE

\* the check before the log template: intent == "logs" and not filters.get("label")
DelegateRequired(key, filters) ==
    intent_map(key).intent = "logs" /\ ~Truthy(Get(filters, "label"))

----------------------------------------------------------------------------
(* ComplexCommandProcessor *)

\* self.max_output_tokens
max_output_tokens == 512

Fence == <<"bq", "bq", "bq">>

\* text.split(Fence)[1]: what lies between the first fence and the next one
\* (or the end of the text)
AfterFirstFence(text) ==
    LET first == Min({i \in 1..Len(text) : StartsWithAt(text, i, Fence)})
        from  == first + Len(Fence)
        next  == {i \in from..Len(text) : StartsWithAt(text, i, Fence)}
    IN  IF next = {} THEN Slice(text, from, Len(text))
        ELSE Slice(text, from, Min(next) - 1)

\* text.splitlines(), for the line break "\n"
RECURSIVE splitlines(_)
splitlines(text) ==
    IF text = <<>> THEN <<>>
    ELSE LET breaks == {i \in 1..Len(text) : text[i] = "\n"}
         IN  IF breaks = {} THEN <<text>>
             ELSE <<Slice(text, 1, Min(breaks) - 1)>>
                  \o splitlines(Slice(text, Min(breaks) + 1, Len(text)))

_extract_kubectl_command(raw) ==
    LET stripped == strip(raw)
        text  == IF Contains(stripped, Fence) THEN strip(AfterFirstFence(stripped))
                 ELSE stripped
        lines == splitlines(text)
        hits  == {k \in DOMAIN lines : startswith(strip(lines[k]), Kubectl)}
    IN  IF hits # {} THEN strip(lines[Min(hits)]) ELSE text

\* an exception travelling up the call stack
Raised(e) == [type |-> "raised", exception |-> e]

\* UsageInfo(...) built by _invoke from resp.usage, or None
UsageOf(resp) ==
    IF resp.usage = None THEN None
    ELSE [type |-> "UsageInfo",
          input_tokens  |-> resp.usage.input_tokens,
          output_tokens |-> resp.usage.output_tokens,
          cached_tokens |-> IF resp.usage.input_tokens_details = None THEN 0
                            ELSE resp.usage.input_tokens_details.cached_tokens]

\* getattr(getattr(response, "incomplete_details", None), "reason", "unknown")
IncompleteReason(response) ==
    IF response.incomplete_details = None THEN Str(<<"u", "n", "k", "n", "o", "w", "n">>)
    ELSE response.incomplete_details.reason

\* NeedsRetry with the reason left unread: any incomplete response is retried
NeedsRetry_AnyIncomplete(response) == response.status = "incomplete"

\* the first check of response.status: retry, or not
NeedsRetry(response) ==
    /\ response.status = "incomplete"
    /\ IncompleteReason(response) = Str(<<"m", "a", "x", "_", "o", "u", "t", "p", "u", "t", "_", "t", "o", "k", "e", "n", "s">>)

\* (payload, refused)
_extract_structured_payload(response) ==
    IF response.output_parsed # None
    THEN [payload |-> response.output_parsed, refused |-> FALSE]
    ELSE LET refusals == {k \in DOMAIN response.output :
                             response.output[k].type = "refusal"}
         IN  IF refusals # {}
             THEN [payload |-> Str(<<"k", "u", "b", "e", "c", "t", "l", " ", "#", " ", "R", "E", "F", "U", "S", "E", "D", ":", " ">>
                                   \o response.output[Min(refusals)].refusal),
                   refused |-> TRUE]
             ELSE [payload |-> None, refused |-> FALSE]

\* _call_responses from the point where no further call is made: the response
\* in hand is the first one (no retry) or the retried one
Conclude(response, usage) ==
    IF response.status = "incomplete"
    THEN [structured |-> Str(<<"k", "u", "b", "e", "c", "t", "l", " ", "#", " ", "I", "N", "C", "O", "M", "P", "L", "E", "T", "E", ":", " ">> \o Format(IncompleteReason(response))),
          usage_info |-> usage]
    ELSE LET p == _extract_structured_payload(response)
         IN  IF p.refused
             THEN [structured |-> IF Truthy(p.payload) THEN p.payload
                                  ELSE Str(<<"k", "u", "b", "e", "c", "t", "l", " ", "#", " ", "R", "E", "F", "U", "S", "E", "D">>),
                   usage_info |-> usage]
             ELSE IF p.payload.type = "KubectlStructuredOutput"
             THEN [structured |-> p.payload, usage_info |-> usage]
             ELSE [structured |-> Str(<<"k", "u", "b", "e", "c", "t", "l", " ", "#", " ", "U", "N", "A", "B", "L", "E", "_", "T", "O", "_", "G", "E", "N", "E", "R", "A", "T", "E", ":", " ", "e", "m", "p", "t", "y", " ", "r", "e", "s", "p", "o", "n", "s", "e">>),
                   usage_info |-> usage]

\* OnException without the except clause: the exception goes up to the caller
OnException_Reraises(e, usage) == [structured |-> Raised(e), usage_info |-> usage]

\* the except clause of _call_responses; usage is the local usage_info at the
\* time the call threw
OnException(e, usage) ==
    [structured |-> Str(<<"k", "u", "b", "e", "c", "t", "l", " ", "#", " ", "L", "L", "M", "_", "C", "A", "L", "L", "_", "F", "A", "I", "L", "E", "D", ":", " ">> \o e.message),
     usage_info |-> usage]

\* process without the prefix check on the extracted command
process_SkipsPrefixCheck(r) ==
    IF r.structured.type \in {"raised", "str"} THEN r.structured
    ELSE IF r.structured.type # "KubectlStructuredOutput"
    THEN Str(<<"k", "u", "b", "e", "c", "t", "l", " ", "#", " ", "U", "N", "A", "B", "L", "E", "_", "T", "O", "_", "G", "E", "N", "E", "R", "A", "T", "E", ":", " ", "m", "i", "s", "s", "i", "n", "g", " ", "f", "i", "e", "l", "d", "s", " ", "c", "o", "m", "m", "a", "n", "d", ",", "r", "e", "a", "s", "o", "n", ",", "t", "i", "t", "l", "e">>)
    ELSE [type    |-> "GeneratedCommand",
          command |-> _extract_kubectl_command(r.structured.command),
          reason  |-> r.structured.reason,
          title   |-> r.structured.title,
          usage   |-> r.usage_info]

\* process, after _call_responses returned (structured, usage_info)
process(r) ==
    IF r.structured.type = "raised" THEN r.structured
    ELSE IF r.structured.type = "str" THEN r.structured
    ELSE IF r.structured.type # "KubectlStructuredOutput"
    THEN Str(<<"k", "u", "b", "e", "c", "t", "l", " ", "#", " ", "U", "N", "A", "B", "L", "E", "_", "T", "O", "_", "G", "E", "N", "E", "R", "A", "T", "E", ":", " ", "m", "i", "s", "s", "i", "n", "g", " ", "f", "i", "e", "l", "d", "s", " ", "c", "o", "m", "m", "a", "n", "d", ",", "r", "e", "a", "s", "o", "n", ",", "t", "i", "t", "l", "e">>)
    ELSE LET kubectl_cmd == _extract_kubectl_command(r.structured.command)
         IN  IF ~startswith(kubectl_cmd, Kubectl)
             THEN Str(<<"k", "u", "b", "e", "c", "t", "l", " ", "#", " ", "U", "N", "A", "B", "L", "E", "_", "T", "O", "_", "G", "E", "N", "E", "R", "A", "T", "E">>)
             ELSE [type    |-> "GeneratedCommand",
                   command |-> kubectl_cmd,
                   reason  |-> r.structured.reason,
                   title   |-> r.structured.title,
                   usage   |-> r.usage_info]

----------------------------------------------------------------------------
(* ExecutorService.execute_command and the /execute endpoint *)

\* raise AppException(message=...)
AppException(message) == [type |-> "AppException", message |-> message]

UnableToGenerate == <<"k", "u", "b", "e", "c", "t", "l", " ", "#", " ", "U", "N", "A", "B", "L", "E", "_", "T", "O", "_", "G", "E", "N", "E", "R", "A", "T", "E">>

\* RequestOutcome with the failure raised before anything is logged
RequestOutcome_NoLogOnFailure(g) ==
    IF g.type = "raised"
    THEN [log |-> None, raises |-> g]
    ELSE IF g.type = "str"
    THEN [log |-> None, raises |-> Raised(AppException(g.value))]
    ELSE IF ~startswith(g.command, Kubectl)
    THEN [log |-> None, raises |-> Raised(AppException(UnableToGenerate))]
    ELSE [log |-> [generated_command |-> Str(g.command), is_success |-> TRUE,
                   error_message |-> None],
          raises |-> None]

\* The branch execute_command takes on what process_command returned: the
\* arguments of its _log_request call (None when an exception passes through
\* before any logging) and, on the two failure branches, what it raises.
RequestOutcome(g) ==
    IF g.type = "raised"
    THEN [log |-> None, raises |-> g]
    ELSE IF g.type = "str"
    THEN [log |-> [generated_command |-> None, is_success |-> FALSE,
                   error_message |-> g],
          raises |-> Raised(AppException(g.value))]
    ELSE IF ~startswith(g.command, Kubectl)
    THEN [log |-> [generated_command |-> None, is_success |-> FALSE,
                   error_message |-> Str(UnableToGenerate)],
          raises |-> Raised(AppException(UnableToGenerate))]
    ELSE [log |-> [generated_command |-> Str(g.command), is_success |-> TRUE,
                   error_message |-> None],
          raises |-> None]

\* the n-th value of uuid4: every id is fresh
UUID(n) == [type |-> "UUID", value |-> n]

\* AgentRequestLog(...) as _log_request adds it
AgentRequestLog(raw, args) ==
    [id               |-> UUID(Len(request_logs) + 1),
     raw_command      |-> raw,
     is_success       |-> args.is_success,
     executed_command |-> args.generated_command,
     error_message    |-> args.error_message]

\* APIUsageLog(...) as _log_usage adds it
APIUsageLog(usage, log_id) ==
    [input_tokens   |-> usage.input_tokens,
     output_tokens  |-> usage.output_tokens,
     cached_tokens  |-> usage.cached_tokens,
     request_log_id |-> log_id]

\* EndpointResponse without the except AppException clause
EndpointResponse_NoDomainCatch(r) ==
    IF r.type = "return"
    THEN [type |-> "CommandResponse", success |-> TRUE,
          command |-> Str(r.value.command), reason |-> Str(r.value.reason),
          title |-> Str(r.value.title), error_message |-> None]
    ELSE [type |-> "HTTPException", status_code |-> 500]

\* the endpoint: the CommandResponse for a returned GeneratedCommand or a caught
\* AppException, an HTTP 500 for any other exception
EndpointResponse(r) ==
    IF r.type = "return"
    THEN [type |-> "CommandResponse", success |-> TRUE,
          command |-> Str(r.value.command), reason |-> Str(r.value.reason),
          title |-> Str(r.value.title), error_message |-> None]
    ELSE IF r.exception.type = "AppException"
    THEN [type |-> "CommandResponse", success |-> FALSE,
          command |-> None, reason |-> None, title |-> None,
          error_message |-> Str(r.exception.message)]
    ELSE [type |-> "HTTPException", status_code |-> 500]

----------------------------------------------------------------------------
(* Inputs: request texts and the behaviours of the external client *)

\* longest request text, in chunks
MaxChunks == 2

Chunks ==
    {<<"PA", "DEU", " ", "MOK", "ROK">>, <<"SEO", "BI", "SEU", " ", "SANG", "TAE">>, <<"RO", "GEU", " ", "JO", "HOE">>, <<"RO", "GEU", "JOM">>, <<"AEP", " ", "w", "e", "b">>,
     <<"MO", "DEUN", " ", "NE", "IM", "SEU", "PE", "II", "SEU">>, <<"n", "s", " ", "d", "e", "v">>, <<"KEON", "TE", "II", "NEO", " ", "a", "p", "p">>, <<"JOM">>, <<"BO", "YEO", "JWO">>,
     <<"REUL">>, <<"a", "p", "i">>, <<"HWAK", "IN", "HAE", "JWO">>, <<"P", "o", "d", " ", "RI", "SEU", "TEU">>}

\* the texts of at most n chunks, separated by single spaces
RECURSIVE Texts(_)
Texts(n) ==
    IF n = 0 THEN {<<>>}
    ELSE Texts(n - 1) \cup Chunks
         \cup {t \o <<" ">> \o c : t \in Texts(n - 1) \ {<<>>}, c \in Chunks}

\* request texts that are longer than the bound or hold other words: requests
\* for a pod list with two polite endings, for all namespaces with a particle
\* attached to the marker, and for the state of a named service
LongRawCommands ==
    {<<"PA", "DEU", " ", "MOK", "ROK", " ", "JOM", " ", "BO", "YEO", "JWO">>, <<"MO", "DEUN", " ", "NE", "IM", "SEU", "PE", "II", "SEU", "UI", " ", "PA", "DEU", " ", "MOK", "ROK">>,
     <<"a", "p", "i", " ", "SEO", "BI", "SEU", " ", "SANG", "TAE", " ", "HWAK", "IN", "HAE", "JWO">>, <<"w", "e", "b", " ", "SEO", "BI", "SEU", " ", "SANG", "TAE">>}

RawCommands == Texts(MaxChunks) \cup LongRawCommands

\* request texts that reach the fallback adapter, and two that do not
FallbackRawCommands == {<<"RO", "GEU", "JOM">>, <<"NO", "DEU", " ", "SANG", "TAE", " ", "AL", "RYEO", "JWO">>, <<"PA", "DEU", " ", "MOK", "ROK">>, <<"AEP", " ", "w", "e", "b", " ", "RO", "GEU", " ", "JO", "HOE">>}

KubectlStructuredOutput(command) ==
    [type |-> "KubectlStructuredOutput", command |-> command,
     reason |-> <<"w", "h", "y">>, title |-> <<"w", "h", "a", "t">>]

ParsedOutputs ==
    {None,
     KubectlStructuredOutput(<<"k", "u", "b", "e", "c", "t", "l", " ", "g", "e", "t", " ", "p", "o", "d", "s">>),
     KubectlStructuredOutput(<<"k", "u", "b", "e", "c", "t", "l", " ", "#", " ", "U", "N", "A", "B", "L", "E", "_", "T", "O", "_", "G", "E", "N", "E", "R", "A", "T", "E">>),
     KubectlStructuredOutput(<<"g", "e", "t", " ", "p", "o", "d", "s">>),
     KubectlStructuredOutput(<<"bq", "bq", "bq", "b", "a", "s", "h", "\n", "k", "u", "b", "e", "c", "t", "l", " ", "g", "e", "t", " ", "p", "o", "d", "s", " ", "-", "A", "\n", "bq", "bq", "bq">>)}

OutputText == [type |-> "output_text"]

Refusal == [type |-> "refusal", refusal |-> <<"p", "o", "l", "i", "c", "y">>]

\* the content items of response.output
Outputs == {<<>>, <<OutputText, Refusal>>}

ResponseUsages ==
    {None,
     [input_tokens |-> 10, output_tokens |-> 5, input_tokens_details |-> None],
     [input_tokens |-> 20, output_tokens |-> 7,
      input_tokens_details |-> [cached_tokens |-> 4]]}

StatusAndDetails ==
    {[status |-> "completed", incomplete_details |-> None],
     [status |-> "incomplete", incomplete_details |-> None],
     [status |-> "incomplete",
      incomplete_details |-> [reason |-> Str(<<"m", "a", "x", "_", "o", "u", "t", "p", "u", "t", "_", "t", "o", "k", "e", "n", "s">>)]],
     [status |-> "incomplete",
      incomplete_details |-> [reason |-> Str(<<"c", "o", "n", "t", "e", "n", "t", "_", "f", "i", "l", "t", "e", "r">>)]]}

Response(sd, parsed, output, usage) ==
    [type |-> "Response", status |-> sd.status,
     incomplete_details |-> sd.incomplete_details,
     output_parsed |-> parsed, output |-> output, usage |-> usage]

ClientError == [type |-> "Exception", message |-> <<"t", "i", "m", "e", "d", " ", "o", "u", "t">>]

\* everything client.responses.parse can do: throw, or return any response
ClientOutcomes ==
    {ClientError}
    \cup {Response(sd, p, o, u) :
            sd \in StatusAndDetails, p \in ParsedOutputs, o \in Outputs,
            u \in ResponseUsages}

\* one outcome for each way _call_responses and process can end
SomeClientOutcomes ==
    {o \in ClientOutcomes :
        \/ o.type = "Exception"
        \/ /\ o.usage # None /\ o.usage.input_tokens_details # None
           /\ \/ o.status = "incomplete" /\ o.output_parsed = None /\ o.output = <<>>
              \/ o.status = "completed"
                 /\ (o.output_parsed = None \/ o.output = <<>>)}

----------------------------------------------------------------------------
(* The request handler, step by step.  One behaviour follows one request    *)
(* from the endpoint to its response; the handler keeps nothing between     *)
(* requests but the two tables, which it only appends to.  The tables are   *)
(* taken to accept every write.  session_id is copied through unread and is *)
(* left out.                                                                *)

\* a record an earlier request left in agent_request_logs
EarlierLog ==
    [id |-> UUID(1), raw_command |-> <<"PA", "DEU", " ", "MOK", "ROK">>, is_success |-> FALSE,
     executed_command |-> None, error_message |-> Str(<<"k", "u", "b", "e", "c", "t", "l", " ", "g", "e", "t", " ", "p", "o", "d", "s">>)]

\* number of pipeline invocations in progress at the same time
MaxInvocations == 2

Invocations == 1..MaxInvocations

\* the locals of an invocation that has not started
IdleInvocation ==
    [pc |-> "idle", raw_command |-> <<>>, normalized |-> <<>>, best_match |-> None,
     filters |-> EmptyDict, generated |-> None]

Init ==
    /\ pc = "idle"
    /\ raw_command = <<>>
    /\ normalized = <<>>
    /\ best_match = None
    /\ calls = <<>>
    /\ responses = <<>>
    /\ usage_info = None
    /\ generated = None
    /\ request_log_id = None
    /\ result = None
    /\ request_logs \in {<<>>, <<EarlierLog>>}
    /\ usage_logs = <<>>
    /\ http = None
    /\ exec_pc = "idle"
    /\ exec_command = <<>>
    /\ exec_timeout = 0
    /\ elapsed = 0
    /\ subprocess = None
    /\ launched = 0
    /\ executed = None
    /\ invocations = [i \in Invocations |-> IdleInvocation]
    /\ kubectl_pc = "idle"
    /\ kubectl_args = None
    /\ kubectl_result = None

\* RetryBudget without the doubling
RetryBudget_Unchanged(budget) == budget

\* the budget of the retried call
RetryBudget(budget) == budget * 2

\* Receive with every text handed to the fallback adapter, matched or not
Receive_AlwaysDelegates(raw) ==
    /\ pc = "idle"
    /\ raw_command' = raw
    /\ normalized' = normalize_command(raw)
    /\ best_match' = MatchIntent(normalize_command(raw))
    /\ calls' = <<max_output_tokens>>
    /\ pc' = "invoke"
    /\ UNCHANGED <<generated, responses, usage_info, request_log_id, result,
                   request_logs, usage_logs, http>>
    /\ UNCHANGED <<execVars, concVars, kubectlVars>>

\* POST /execute arrives: execute_command normalises the text and calls
\* process_command, which builds the command or hands it to the fallback
\* adapter, whose first client call is then in flight
Receive(raw) ==
    /\ pc = "idle"
    /\ raw_command' = raw
    /\ LET n  == normalize_command(raw)
           bm == MatchIntent(n)
           filters == _extract_filters(n)
       IN  /\ normalized' = n
           /\ best_match' = bm
           /\ IF bm = None \/ DelegateRequired(bm.value, filters)
              THEN /\ calls' = <<max_output_tokens>>
                   /\ pc' = "invoke"
                   /\ UNCHANGED generated
              ELSE /\ generated' = Str(_build_command(bm.value,
                                        intent_map(bm.value).resource, filters))
                   /\ pc' = "generated"
                   /\ UNCHANGED calls
    /\ UNCHANGED <<responses, usage_info, request_log_id, result, request_logs,
                   usage_logs, http>>
    /\ UNCHANGED <<execVars, concVars, kubectlVars>>

\* the first client.responses.parse call ends
FirstCallEnds(o) ==
    /\ pc = "invoke"
    /\ Len(calls) = 1
    /\ responses' = Append(responses, o)
    /\ IF o.type = "Exception"
       THEN /\ generated' = process(OnException(o, usage_info))
            /\ pc' = "generated"
            /\ UNCHANGED <<usage_info, calls>>
       ELSE /\ usage_info' = UsageOf(o)
            /\ IF NeedsRetry(o)
               THEN /\ calls' = Append(calls, RetryBudget(calls[1]))
                    /\ UNCHANGED <<pc, generated>>
               ELSE /\ generated' = process(Conclude(o, UsageOf(o)))
                    /\ pc' = "generated"
                    /\ UNCHANGED calls
    /\ UNCHANGED <<raw_command, normalized, best_match, request_log_id, result,
                   request_logs, usage_logs, http>>
    /\ UNCHANGED <<execVars, concVars, kubectlVars>>

\* the retried call ends
RetryEnds(o) ==
    /\ pc = "invoke"
    /\ Len(calls) = 2
    /\ responses' = Append(responses, o)
    /\ IF o.type = "Exception"
       THEN /\ generated' = process(OnException(o, usage_info))
            /\ UNCHANGED usage_info
       ELSE /\ usage_info' = UsageOf(o)
            /\ generated' = process(Conclude(o, UsageOf(o)))
    /\ pc' = "generated"
    /\ UNCHANGED <<raw_command, normalized, best_match, calls, request_log_id,
                   result, request_logs, usage_logs, http>>
    /\ UNCHANGED <<execVars, concVars, kubectlVars>>

\* execute_command writes the request log and raises, returns, or goes on to
\* the usage log
LogRequest ==
    /\ pc = "generated"
    /\ LET out == RequestOutcome(generated)
       IN  /\ IF out.log = None
              THEN UNCHANGED <<request_logs, request_log_id>>
              ELSE /\ request_logs' =
                        Append(request_logs, AgentRequestLog(raw_command, out.log))
                   /\ request_log_id' = UUID(Len(request_logs) + 1)
           /\ IF out.raises # None
              THEN result' = out.raises /\ pc' = "respond"
              ELSE IF generated.usage # None
              THEN pc' = "log_usage" /\ UNCHANGED result
              ELSE result' = [type |-> "return", value |-> generated] /\ pc' = "respond"
    /\ UNCHANGED <<raw_command, normalized, best_match, calls, responses,
                   usage_info, generated, usage_logs, http>>
    /\ UNCHANGED <<execVars, concVars, kubectlVars>>

\* LogUsage without the id of the request log
LogUsage_NoRequestLogId ==
    /\ pc = "log_usage"
    /\ usage_logs' = Append(usage_logs, APIUsageLog(generated.usage, None))
    /\ result' = [type |-> "return", value |-> generated]
    /\ pc' = "respond"
    /\ UNCHANGED <<raw_command, normalized, best_match, calls, responses,
                   usage_info, generated, request_log_id, request_logs, http>>
    /\ UNCHANGED <<execVars, concVars, kubectlVars>>

\* execute_command writes the usage log and returns
LogUsage ==
    /\ pc = "log_usage"
    /\ usage_logs' = Append(usage_logs, APIUsageLog(generated.usage, request_log_id))
    /\ result' = [type |-> "return", value |-> generated]
    /\ pc' = "respond"
    /\ UNCHANGED <<raw_command, normalized, best_match, calls, responses,
                   usage_info, generated, request_log_id, request_logs, http>>
    /\ UNCHANGED <<execVars, concVars, kubectlVars>>

\* the endpoint answers
Respond ==
    /\ pc = "respond"
    /\ http' = EndpointResponse(result)
    /\ pc' = "done"
    /\ UNCHANGED <<raw_command, normalized, best_match, calls, responses,
                   usage_info, generated, request_log_id, result, request_logs,
                   usage_logs>>
    /\ UNCHANGED <<execVars, concVars, kubectlVars>>

Handler == LogRequest \/ LogUsage \/ Respond

\* every request text of the bound, a client that ends each way it can
Next ==
    \/ \E raw \in RawCommands : Receive(raw)
    \/ \E o \in SomeClientOutcomes : FirstCallEnds(o)
    \/ \E o \in SomeClientOutcomes : RetryEnds(o)
    \/ Handler

Spec == Init /\ [][Next]_vars

\* the texts that reach the fallback adapter, a client that may return anything
NextFallback ==
    \/ \E raw \in FallbackRawCommands : Receive(raw)
    \/ \E o \in ClientOutcomes : FirstCallEnds(o)
    \/ \E o \in ClientOutcomes : RetryEnds(o)
    \/ Handler

SpecFallback == Init /\ [][NextFallback]_vars


----------------------------------------------------------------------------
(* CommandExecutor.execute: one call, from create_subprocess_shell to the   *)
(* return or the exception.  The caller may cancel the call while it waits. *)
(* A byte string is the sequence of its UTF-8 encoded characters, each      *)
(* written as the character itself; "xFF" is the byte 0xFF, which no UTF-8  *)
(* text contains.                                                           *)

\* the variables of the /execute request
requestVars == <<pc, raw_command, normalized, best_match, calls, responses,
                 usage_info, generated, request_log_id, result, request_logs,
                 usage_logs, http>>

\* a Python int held where None is possible
PyInt(n) == [type |-> "int", value |-> n]

Bytes(b) == [type |-> "bytes", value |-> b]

\* bytes.decode(): the text, or UnicodeDecodeError on a byte that is no UTF-8
decode(b) ==
    IF \E i \in DOMAIN b.value : b.value[i] = "xFF"
    THEN Raised([type |-> "UnicodeDecodeError"])
    ELSE Str(b.value)

CommandExecutionResult(command, return_code, stdout, stderr) ==
    [type |-> "CommandExecutionResult", command |-> command,
     return_code |-> return_code, stdout |-> stdout, stderr |-> stderr]

\* longest timeout a caller passes, in time units
MaxTimeout == 2

Timeouts == 0..MaxTimeout

ExecCommands == {<<"k", "u", "b", "e", "c", "t", "l", " ", "g", "e", "t", " ", "p", "o", "d", "s", " ", "-", "A">>, <<"k", "u", "b", "e", "c", "t", "l", " ", "l", "o", "g", "s", " ", "-", "f", " ", "-", "-", "t", "a", "i", "l", "=", "1", "0", " ", "w", "e", "b">>}

\* process.returncode once the subprocess is gone
ReturnCodes == {None, PyInt(0), PyInt(1)}

\* what the subprocess wrote to a pipe
Streams == {Bytes(<<>>), Bytes(<<"w", "e", "b", "-", "1", " ", "R", "u", "n", "n", "i", "n", "g", "\n">>), Bytes(<<" ", "n", "o", "t", " ", "f", "o", "u", "n", "d", " ">>),
            Bytes(<<"xFF">>)}

\* execute is called: create_subprocess_shell starts the subprocess and
\* wait_for starts to wait for communicate()
Execute(command, timeout) ==
    /\ exec_pc = "idle"
    /\ exec_command' = command
    /\ exec_timeout' = timeout
    /\ subprocess' = [state |-> "running", returncode |-> None,
                      stdout |-> Bytes(<<>>), stderr |-> Bytes(<<>>)]
    /\ launched' = launched + 1
    /\ elapsed' = 0
    /\ exec_pc' = "waiting"
    /\ UNCHANGED executed
    /\ UNCHANGED <<requestVars, concVars, kubectlVars>>

\* a time unit passes while wait_for waits
Tick ==
    /\ exec_pc = "waiting"
    /\ elapsed < exec_timeout
    /\ elapsed' = elapsed + 1
    /\ UNCHANGED <<exec_pc, exec_command, exec_timeout, subprocess, launched,
                   executed>>
    /\ UNCHANGED <<requestVars, concVars, kubectlVars>>

\* the subprocess ends by itself, whether or not anyone still waits for it
SubprocessExits(returncode, stdout, stderr) ==
    /\ subprocess # None
    /\ subprocess.state = "running"
    /\ subprocess' = [state |-> "exited", returncode |-> returncode,
                      stdout |-> stdout, stderr |-> stderr]
    /\ UNCHANGED <<exec_pc, exec_command, exec_timeout, elapsed, launched,
                   executed>>
    /\ UNCHANGED <<requestVars, concVars, kubectlVars>>

\* communicate() returns in time: the streams are decoded and stripped and the
\* result is returned, or decode raises
Complete ==
    /\ exec_pc = "waiting"
    /\ subprocess.state = "exited"
    /\ LET stdout == decode(subprocess.stdout)
           stderr == decode(subprocess.stderr)
           return_code == IF subprocess.returncode # None
                          THEN subprocess.returncode.value ELSE -1
       IN  IF stdout.type = "raised"
           THEN executed' = stdout /\ exec_pc' = "raised"
           ELSE IF stderr.type = "raised"
           THEN executed' = stderr /\ exec_pc' = "raised"
           ELSE /\ executed' = CommandExecutionResult(exec_command, return_code,
                                   strip(stdout.value), strip(stderr.value))
                /\ exec_pc' = "returned"
    /\ UNCHANGED <<exec_command, exec_timeout, elapsed, subprocess, launched>>
    /\ UNCHANGED <<requestVars, concVars, kubectlVars>>

\* TimeoutExpires without process.kill()
TimeoutExpires_NoKill ==
    /\ exec_pc = "waiting"
    /\ elapsed = exec_timeout
    /\ subprocess.state = "running"
    /\ executed' = Raised([type |-> "TimeoutError"])
    /\ exec_pc' = "raised"
    /\ UNCHANGED <<exec_command, exec_timeout, elapsed, subprocess, launched>>
    /\ UNCHANGED <<requestVars, concVars, kubectlVars>>

\* the timeout passes with the subprocess still running: wait_for raises
\* TimeoutError, execute kills the subprocess and raises again
TimeoutExpires ==
    /\ exec_pc = "waiting"
    /\ elapsed = exec_timeout
    /\ subprocess.state = "running"
    /\ subprocess' = [subprocess EXCEPT !.state = "killed"]
    /\ executed' = Raised([type |-> "TimeoutError"])
    /\ exec_pc' = "raised"
    /\ UNCHANGED <<exec_command, exec_timeout, elapsed, launched>>
    /\ UNCHANGED <<requestVars, concVars, kubectlVars>>

\* the caller cancels the call while it waits: wait_for raises CancelledError,
\* which the except TimeoutError clause lets through
Cancel ==
    /\ exec_pc = "waiting"
    /\ executed' = Raised([type |-> "CancelledError"])
    /\ exec_pc' = "raised"
    /\ UNCHANGED <<exec_command, exec_timeout, elapsed, subprocess, launched>>
    /\ UNCHANGED <<requestVars, concVars, kubectlVars>>

\* one call of execute, a subprocess that ends any way it can, a caller that
\* may cancel
NextExecutor ==
    \/ \E command \in ExecCommands : \E timeout \in Timeouts : Execute(command, timeout)
    \/ Tick
    \/ \E returncode \in ReturnCodes : \E stdout \in Streams : \E stderr \in Streams :
          SubprocessExits(returncode, stdout, stderr)
    \/ Complete
    \/ TimeoutExpires
    \/ Cancel

SpecExecutor == Init /\ [][NextExecutor]_vars

\* the event loop runs the timer of wait_for and the callbacks of a finished
\* communicate(); nothing makes a caller cancel
SpecExecutorFair ==
    /\ SpecExecutor
    /\ WF_vars(Tick)
    /\ WF_vars(Complete)
    /\ WF_vars(TimeoutExpires)

----------------------------------------------------------------------------
(* Concurrent invocations of the rule path.  Every request gets its own     *)
(* CommandRouter and PatternMatchingSystem (get_executor_service), and      *)
(* normalize_command and process_command keep what they compute in locals;  *)
(* the tables they read are module constants.  The four stages of one       *)
(* invocation are separate steps here, so that stages of different          *)
(* invocations interleave in every order.                                   *)

ConcurrentRawCommands ==
    {<<"PA", "DEU", " ", "MOK", "ROK">>, <<"n", "s", " ", "d", "e", "v", " ", "PA", "DEU", " ", "MOK", "ROK", " ", "KEON", "TE", "II", "NEO", " ", "a", "p", "p">>,
     <<"MO", "DEUN", " ", "NE", "IM", "SEU", "PE", "II", "SEU", " ", "SEO", "BI", "SEU", " ", "SANG", "TAE", " ", "HWAK", "IN", "HAE", "JWO">>, <<"AEP", " ", "w", "e", "b", " ", "RO", "GEU", " ", "JO", "HOE">>,
     <<"RO", "GEU", " ", "JO", "HOE">>, <<"NO", "DEU", " ", "SANG", "TAE", " ", "AL", "RYEO", "JWO">>}

\* invocation i takes the request text and normalises it
Normalize(i, raw) ==
    /\ invocations[i].pc = "idle"
    /\ invocations' = [invocations EXCEPT
                         ![i].raw_command = raw,
                         ![i].normalized = normalize_command(raw),
                         ![i].pc = "normalized"]
    /\ UNCHANGED <<requestVars, execVars, kubectlVars>>

\* process_command's loop over the patterns; without a hit it delegates
Match(i) ==
    /\ invocations[i].pc = "normalized"
    /\ LET bm == MatchIntent(invocations[i].normalized)
       IN  invocations' = [invocations EXCEPT
                             ![i].best_match = bm,
                             ![i].pc = IF bm = None THEN "delegated" ELSE "matched"]
    /\ UNCHANGED <<requestVars, execVars, kubectlVars>>

\* Extract with the filters kept in one dict that all invocations share
Extract_SharedFilters(i) ==
    /\ invocations[i].pc = "matched"
    /\ LET filters == _extract_filters(invocations[i].normalized)
       IN  invocations' =
              [j \in Invocations |->
                  IF j = i
                  THEN [invocations[j] EXCEPT
                          !.filters = filters,
                          !.pc = IF DelegateRequired(invocations[i].best_match.value, filters)
                                 THEN "delegated" ELSE "extracted"]
                  ELSE [invocations[j] EXCEPT !.filters = filters]]
    /\ UNCHANGED <<requestVars, execVars, kubectlVars>>

\* process_command extracts the filters into its local dict; a log request
\* without a label delegates
Extract(i) ==
    /\ invocations[i].pc = "matched"
    /\ LET filters == _extract_filters(invocations[i].normalized)
       IN  invocations' = [invocations EXCEPT
                             ![i].filters = filters,
                             ![i].pc = IF DelegateRequired(invocations[i].best_match.value,
                                                           filters)
                                       THEN "delegated" ELSE "extracted"]
    /\ UNCHANGED <<requestVars, execVars, kubectlVars>>

\* process_command builds the command from its intent and filters
Build(i) ==
    /\ invocations[i].pc = "extracted"
    /\ invocations' = [invocations EXCEPT
                         ![i].generated =
                             Str(_build_command(invocations[i].best_match.value,
                                    intent_map(invocations[i].best_match.value).resource,
                                    invocations[i].filters)),
                         ![i].pc = "built"]
    /\ UNCHANGED <<requestVars, execVars, kubectlVars>>

NextConcurrent ==
    \/ \E i \in Invocations : \E raw \in ConcurrentRawCommands : Normalize(i, raw)
    \/ \E i \in Invocations : Match(i)
    \/ \E i \in Invocations : Extract(i)
    \/ \E i \in Invocations : Build(i)

SpecConcurrent == Init /\ [][NextConcurrent]_vars

----------------------------------------------------------------------------
(* ExecutorService.execute_kubectl: one call.  It awaits the executor, then *)
(* logs the result when asked to, and returns it; an exception of the       *)
(* executor passes through.  session_id is copied through unread and is     *)
(* left out.                                                                *)

\* the context argument: None, an empty dict, or the text of the request
Contexts == {None, EmptyDict, [raw_command |-> <<"PA", "DEU", " ", "MOK", "ROK">>]}

\* context or {}
ContextOrEmpty(context) == IF context = None \/ context = EmptyDict THEN EmptyDict ELSE context

\* execute_kubectl is called
ExecuteKubectl(kubectl_command, context, timeout, log_to_db) ==
    /\ kubectl_pc = "idle"
    /\ exec_pc = "idle"
    /\ kubectl_args' = [kubectl_command |-> kubectl_command, context |-> context,
                        timeout |-> timeout, log_to_db |-> log_to_db]
    /\ kubectl_pc' = "executing"
    /\ UNCHANGED kubectl_result
    /\ UNCHANGED <<requestVars, execVars, concVars>>

\* it calls self.executor.execute with its command and timeout
CallExecutor ==
    /\ kubectl_pc = "executing"
    /\ Execute(kubectl_args.kubectl_command, kubectl_args.timeout)

\* the record _log_execution adds for the result
ExecutionLog(args, r) ==
    LET context == ContextOrEmpty(args.context)
        raw == IF "raw_command" \in DOMAIN context THEN context.raw_command
               ELSE args.kubectl_command
    IN  AgentRequestLog(raw,
           [generated_command |-> Str(args.kubectl_command),
            is_success |-> r.return_code = 0,
            error_message |-> IF r.stderr = <<>> THEN None ELSE Str(r.stderr)])

\* LogExecution with the record written whatever log_to_db says
LogExecution_IgnoresFlag ==
    /\ kubectl_pc = "executing"
    /\ exec_pc = "returned"
    /\ request_logs' = Append(request_logs, ExecutionLog(kubectl_args, executed))
    /\ kubectl_result' = executed
    /\ kubectl_pc' = "returned"
    /\ UNCHANGED <<pc, raw_command, normalized, best_match, calls, responses,
                   usage_info, generated, request_log_id, result, usage_logs, http>>
    /\ UNCHANGED <<kubectl_args, execVars, concVars>>

\* the executor returned a result: it is logged if log_to_db, and returned
LogExecution ==
    /\ kubectl_pc = "executing"
    /\ exec_pc = "returned"
    /\ IF kubectl_args.log_to_db
       THEN request_logs' = Append(request_logs, ExecutionLog(kubectl_args, executed))
       ELSE UNCHANGED request_logs
    /\ kubectl_result' = executed
    /\ kubectl_pc' = "returned"
    /\ UNCHANGED <<pc, raw_command, normalized, best_match, calls, responses,
                   usage_info, generated, request_log_id, result, usage_logs, http>>
    /\ UNCHANGED <<kubectl_args, execVars, concVars>>

\* the executor raised: the exception leaves execute_kubectl as it is
ExecutionFails ==
    /\ kubectl_pc = "executing"
    /\ exec_pc = "raised"
    /\ kubectl_result' = executed
    /\ kubectl_pc' = "raised"
    /\ UNCHANGED <<kubectl_args, requestVars, execVars, concVars>>

\* one call of execute_kubectl around one call of the executor
NextKubectl ==
    \/ \E kubectl_command \in ExecCommands : \E context \in Contexts :
       \E timeout \in Timeouts : \E log_to_db \in BOOLEAN :
          ExecuteKubectl(kubectl_command, context, timeout, log_to_db)
    \/ CallExecutor
    \/ Tick
    \/ \E returncode \in ReturnCodes : \E stdout \in Streams : \E stderr \in Streams :
          SubprocessExits(returncode, stdout, stderr)
    \/ Complete
    \/ TimeoutExpires
    \/ Cancel
    \/ LogExecution
    \/ ExecutionFails

SpecKubectl == Init /\ [][NextKubectl]_vars
----------------------------------------------------------------------------
(* Properties *)

Last(s) == s[Len(s)]

\* the request went down the rule path: the handler is past process_command
\* and the client was never called
RulePath == pc \notin {"idle", "invoke"} /\ calls = <<>>

\* the request went to the fallback adapter and the adapter has returned
FallbackReturned == pc \notin {"idle", "invoke"} /\ calls # <<>>

\* the command the rule path builds for the normalised text
RuleCommand ==
    _build_command(best_match.value, intent_map(best_match.value).resource,
                   _extract_filters(normalized))

\* the record this request added to agent_request_logs
RequestLog == Last(request_logs)

LoggedThisRequest == request_log_id # None /\ RequestLog.id = request_log_id

\* C1: a request resolved by the rule path is answered with success=true, the
\* built command, a reason and a title, no error message, and is logged as a
\* success with the built command as executedCommand.
C1_RulePathSucceeds ==
    (pc = "done" /\ RulePath) =>
        /\ http.type = "CommandResponse"
        /\ http.success
        /\ http.command = Str(RuleCommand)
        /\ http.reason # None
        /\ http.title # None
        /\ http.error_message = None
        /\ LoggedThisRequest
        /\ RequestLog.is_success
        /\ RequestLog.executed_command = Str(RuleCommand)

\* an executable command line: the CLI prefix, and not the sentinel form
Executable(command) ==
    startswith(command, Kubectl) /\ ~startswith(command, <<"k", "u", "b", "e", "c", "t", "l", " ", "#">>)

\* C2: every command returned as a success, by process as a GeneratedCommand
\* and by the endpoint with success=true, starts with "kubectl " and is not of
\* the sentinel form "kubectl # ...".
C2_SuccessIsExecutable ==
    /\ generated.type = "GeneratedCommand" => Executable(generated.command)
    /\ (pc = "done" /\ http.type = "CommandResponse" /\ http.success)
          => Executable(http.command.value)

\* C3: every GeneratedCommand of process has a command that starts with
\* "kubectl ", every plain string of process starts with "kubectl # ", and
\* every command of _build_command starts with "kubectl ".
C3_PrefixInvariant ==
    /\ generated.type = "GeneratedCommand" => startswith(generated.command, Kubectl)
    /\ (FallbackReturned /\ generated.type = "str")
          => startswith(generated.value, <<"k", "u", "b", "e", "c", "t", "l", " ", "#", " ">>)
    /\ RulePath => (generated.type = "str" /\ startswith(generated.value, Kubectl))

\* C3 witness: process returned a GeneratedCommand whose command it cut out of
\* a longer model answer
C3_Witness ==
    /\ pc = "done"
    /\ generated.type = "GeneratedCommand"
    /\ Last(responses).output_parsed.command # generated.command

SentinelTags ==
    {<<"U", "N", "A", "B", "L", "E", "_", "T", "O", "_", "G", "E", "N", "E", "R", "A", "T", "E">>, <<"R", "E", "F", "U", "S", "E", "D">>, <<"I", "N", "C", "O", "M", "P", "L", "E", "T", "E">>, <<"L", "L", "M", "_", "C", "A", "L", "L", "_", "F", "A", "I", "L", "E", "D">>}

\* C4: when the fallback adapter returns a sentinel string, the endpoint
\* answers (no unhandled exception) with success=false, command, reason and
\* title null and the sentinel, tag included, as errorMessage; the request log
\* has isSuccess=false, no executedCommand and the sentinel as errorMessage.
C4_FallbackFailureSurfaced ==
    (pc = "done" /\ FallbackReturned /\ generated.type = "str") =>
        /\ http = [type |-> "CommandResponse", success |-> FALSE,
                   command |-> None, reason |-> None, title |-> None,
                   error_message |-> generated]
        /\ \E tag \in SentinelTags :
              startswith(http.error_message.value, <<"k", "u", "b", "e", "c", "t", "l", " ", "#", " ">> \o tag)
        /\ LoggedThisRequest
        /\ ~RequestLog.is_success
        /\ RequestLog.executed_command = None
        /\ RequestLog.error_message = generated

\* C4 witness: a request answered after the retried call failed too
C4_Witness ==
    pc = "done" /\ Len(calls) = 2 /\ generated.type = "str" /\ ~http.success

IsIncomplete(o) == o.type = "Response" /\ o.status = "incomplete"

\* the text _call_responses puts after "INCOMPLETE: "
ReasonText(o) ==
    IF o.incomplete_details = None THEN <<"u", "n", "k", "n", "o", "w", "n">>
    ELSE o.incomplete_details.reason.value

OutOfTokens(o) == IsIncomplete(o) /\ ReasonText(o) = <<"m", "a", "x", "_", "o", "u", "t", "p", "u", "t", "_", "t", "o", "k", "e", "n", "s">>

\* C5: the client is called at most twice; the first call has a budget of 512;
\* a second call is made exactly when the first response is incomplete for
\* max_output_tokens, and its budget is 2 * 512; a second incomplete response
\* ends the adapter with "kubectl # INCOMPLETE: <reason>".
C5_RetryLaw ==
    /\ Len(calls) <= 2
    /\ Len(responses) <= Len(calls)
    /\ calls # <<>> => calls[1] = max_output_tokens
    /\ responses # <<>> => (Len(calls) = 2 <=> OutOfTokens(responses[1]))
    /\ Len(calls) = 2 => calls[2] = 2 * max_output_tokens
    /\ Len(responses) = 2 => pc # "invoke"
    /\ (Len(responses) = 2 /\ IsIncomplete(responses[2]))
          => generated = Str(<<"k", "u", "b", "e", "c", "t", "l", " ", "#", " ", "I", "N", "C", "O", "M", "P", "L", "E", "T", "E", ":", " ">> \o ReasonText(responses[2]))

\* C5 witness: the retried call came back incomplete as well
C5_Witness ==
    pc = "done" /\ Len(responses) = 2 /\ OutOfTokens(responses[2])

\* C6: a first response that is incomplete for another reason than
\* max_output_tokens (a missing reason reads "unknown") ends the adapter at
\* once with "kubectl # INCOMPLETE: <reason>", after exactly one call.
C6_NoRetryOnOtherReason ==
    (responses # <<>> /\ IsIncomplete(responses[1]) /\ ~OutOfTokens(responses[1])) =>
        /\ Len(calls) = 1
        /\ pc # "invoke"
        /\ generated = Str(<<"k", "u", "b", "e", "c", "t", "l", " ", "#", " ", "I", "N", "C", "O", "M", "P", "L", "E", "T", "E", ":", " ">> \o ReasonText(responses[1]))

\* C6 witness: an incomplete first response that gives no reason
C6_Witness ==
    /\ pc = "done"
    /\ responses # <<>>
    /\ IsIncomplete(responses[1])
    /\ responses[1].incomplete_details = None

\* C7: process never raises: once the adapter is done its result is a
\* GeneratedCommand or a string, and an exception thrown by the first or by
\* the retried call gives "kubectl # LLM_CALL_FAILED: <detail>".
C7_ProcessNeverRaises ==
    /\ generated.type \in {"None", "str", "GeneratedCommand"}
    /\ FallbackReturned => generated.type \in {"str", "GeneratedCommand"}
    /\ (responses # <<>> /\ Last(responses).type = "Exception") =>
          /\ pc # "invoke"
          /\ generated = Str(<<"k", "u", "b", "e", "c", "t", "l", " ", "#", " ", "L", "L", "M", "_", "C", "A", "L", "L", "_", "F", "A", "I", "L", "E", "D", ":", " ">> \o Last(responses).message)

\* C7 witness: the retried call threw
C7_Witness ==
    pc = "done" /\ Len(responses) = 2 /\ Last(responses).type = "Exception"

\* the response carries a refusal content item
HasRefusal(o) == \E k \in DOMAIN o.output : o.output[k].type = "refusal"

\* the detail of the first refusal item of the response
RefusalDetail(o) ==
    o.output[Min({k \in DOMAIN o.output : o.output[k].type = "refusal"})].refusal

\* C8: when the response the adapter concludes on is a completed response
\* that reports a refusal, process returns a string that starts with
\* "kubectl # REFUSED" and carries the refusal detail, never a
\* GeneratedCommand, and the endpoint answers success=false.
C8_RefusalSurfaced ==
    (pc = "done" /\ responses # <<>> /\ Last(responses).type = "Response"
       /\ Last(responses).status = "completed" /\ HasRefusal(Last(responses))) =>
        /\ generated = Str(<<"k", "u", "b", "e", "c", "t", "l", " ", "#", " ", "R", "E", "F", "U", "S", "E", "D", ":", " ">> \o RefusalDetail(Last(responses)))
        /\ http.type = "CommandResponse"
        /\ ~http.success

\* the usage the adapter's result carries
ResultUsage(g) == IF g.type = "GeneratedCommand" THEN g.usage ELSE None

\* the usage metadata the external calls of this request returned: the
\* retried call's when it returned any, otherwise the first call's
ReturnedUsage ==
    IF Last(responses).type = "Response" /\ Last(responses).usage # None
    THEN UsageOf(Last(responses))
    ELSE IF Len(responses) = 2 /\ Last(responses).type = "Exception"
    THEN UsageOf(responses[1])
    ELSE None

\* C9: whenever an external call of the request returned usage metadata, the
\* adapter's result carries it (the retried call's usage when there was a
\* retry), whether the result is a GeneratedCommand or a sentinel.
C9_UsageCaptured ==
    (FallbackReturned /\ ReturnedUsage # None) => ResultUsage(generated) = ReturnedUsage

PodLogs == <<"p", "o", "d", "_", "l", "o", "g", "s">>

LogTemplate == <<"k", "u", "b", "e", "c", "t", "l", " ", "l", "o", "g", "s", " ", "-", "f", " ", "-", "-", "t", "a", "i", "l", "=", "1", "0", " ">>

\* the matched intent is pod_logs and no label is extracted from the text
LogsWithoutLabel ==
    /\ pc # "idle"
    /\ best_match = Str(PodLogs)
    /\ "label" \notin DOMAIN _extract_filters(normalized)

\* C10: a text whose intent is pod_logs and that yields no label goes to the
\* fallback adapter and the log template is never built for it; no rule-built
\* "kubectl logs -f --tail=10 <target>" has an empty or "None" target.
C10_DelegationCorrectness ==
    /\ LogsWithoutLabel => calls # <<>>
    /\ (RulePath /\ startswith(generated.value, LogTemplate)) =>
          LET target == Slice(generated.value, Len(LogTemplate) + 1, Len(generated.value))
          IN  /\ target # <<>>
              /\ target[1] # " "
              /\ target # <<"N", "o", "n", "e">>
              /\ ~startswith(target, <<"N", "o", "n", "e", " ">>)

\* C10 witness: a log request without a label that was answered by the adapter
C10_Witness == pc = "done" /\ LogsWithoutLabel /\ calls # <<>>


\* the adapter is called for the normalised text: no intent matched, or the
\* matched intent is pod_logs and the text gives no label
AdapterDue ==
    \/ \A k \in DOMAIN SIMPLE_COMMAND_DEFINITION :
          ~PatternSearch(SIMPLE_COMMAND_DEFINITION[k], normalized)
    \/ LogsWithoutLabel

\* process_command has just run: the first client call is in flight, or the
\* command is built and not yet logged
JustProcessed ==
    \/ pc = "invoke" /\ responses = <<>>
    \/ pc = "generated" /\ calls = <<>>

\* C11: when process_command has run, the match was made on the normalised
\* text and either the command was built from the filters of that text or the
\* fallback adapter was invoked, which happens exactly when no intent matches
\* or the intent is pod_logs without a label; no later step of the request
\* invokes the adapter (a second client call is the retry inside that one
\* invocation) or touches the text, the match or a rule-built command; a
\* rule-built result has called no external service and carries no usage.
C11_PipelineOrder ==
    /\ [](JustProcessed =>
            /\ normalized = normalize_command(raw_command)
            /\ best_match = MatchIntent(normalized)
            /\ calls # <<>> <=> AdapterDue
            /\ calls \in {<<>>, <<max_output_tokens>>}
            /\ calls = <<>> =>
                  /\ generated = Str(RuleCommand)
                  /\ ResultUsage(generated) = None
                  /\ responses = <<>> /\ usage_info = None /\ usage_logs = <<>>)
    /\ [][/\ pc = "idle" => JustProcessed'
          /\ pc # "idle" =>
               /\ UNCHANGED <<raw_command, normalized, best_match>>
               /\ calls' = calls \/ (Len(calls) = 1 /\ calls' = <<calls[1], 2 * calls[1]>>)
               /\ RulePath =>
                     /\ generated' = generated
                     /\ responses' = <<>> /\ usage_info' = None /\ usage_logs' = <<>>]_vars

\* C11 witness: a log request that names its target is answered by the rule
\* path, no call made
C11_Witness ==
    /\ pc = "done"
    /\ RulePath
    /\ best_match = Str(PodLogs)
    /\ startswith(generated.value, LogTemplate)

\* the command line has the flag as one of its space-separated words
HasFlag(command, flag) ==
    Contains(command \o <<" ">>, <<" ">> \o flag \o <<" ">>)

\* C12: the filters extracted from a text never hold both all_namespaces and
\* namespace, whatever namespace marker stands next to the all-scope marker,
\* and no rule-built command has both an -A and an -n flag.
C12_ScopeExclusive ==
    pc # "idle" =>
        /\ LET filters == _extract_filters(normalized)
           IN  /\ ~({"all_namespaces", "namespace"} \subseteq DOMAIN filters)
               /\ AllNamespacesSearch(normalized) => "namespace" \notin DOMAIN filters
        /\ RulePath => ~(HasFlag(generated.value, <<"-", "A">>) /\ HasFlag(generated.value, <<"-", "n">>))

\* C12 witness: a command built for a text in which both the all-scope pattern
\* and the namespace pattern hit
C12_Witness ==
    /\ pc = "done"
    /\ RulePath
    /\ AllNamespacesSearch(normalized)
    /\ FilterSearch(normalized, NamespaceMarkers) # None
    /\ HasFlag(generated.value, <<"-", "A">>)

\* the position at which the flag starts in the command line, 0 when absent
FlagAt(command, flag) ==
    LET at == {i \in 1..Len(command) :
                  StartsWithAt(command \o <<" ">>, i, <<" ">> \o flag \o <<" ">>)}
    IN  IF at = {} THEN 0 ELSE Min(at)

\* C13: a rule-built command has a -c flag only when the intent is pod_logs,
\* and then after the scope flag; a command built for pod_list or
\* service_status has no -c flag, whatever container the text names.
C13_ContainerFlagOnlyForLogs ==
    RulePath =>
        /\ HasFlag(generated.value, <<"-", "c">>) => best_match = Str(PodLogs)
        /\ HasFlag(generated.value, <<"-", "c">>) =>
              /\ FlagAt(generated.value, <<"-", "n">>) < FlagAt(generated.value, <<"-", "c">>)
              /\ FlagAt(generated.value, <<"-", "A">>) < FlagAt(generated.value, <<"-", "c">>)

\* the definitions of which a keyword occurs in the normalised text
KeywordHits ==
    {k \in DOMAIN SIMPLE_COMMAND_DEFINITION :
        \E w \in DOMAIN SIMPLE_COMMAND_DEFINITION[k].keywords :
           Contains(normalized, SIMPLE_COMMAND_DEFINITION[k].keywords[w])}

\* the first position of the text at which a keyword of definition k starts
KeywordAt(k) ==
    Min({i \in 1..Len(normalized) :
            \E w \in DOMAIN SIMPLE_COMMAND_DEFINITION[k].keywords :
               StartsWithAt(normalized, i, SIMPLE_COMMAND_DEFINITION[k].keywords[w])})

\* C14: the table lists pod_list, service_status, pod_logs in this order; the
\* matched intent is the earliest listed definition one of whose keywords
\* occurs in the text, wherever in the text the keywords stand, and there is
\* no match exactly when no keyword of any definition occurs.
C14_TableOrderPriority ==
    /\ [k \in DOMAIN SIMPLE_COMMAND_DEFINITION |-> SIMPLE_COMMAND_DEFINITION[k].intent_key]
          = <<<<"p", "o", "d", "_", "l", "i", "s", "t">>, <<"s", "e", "r", "v", "i", "c", "e", "_", "s", "t", "a", "t", "u", "s">>, PodLogs>>
    /\ pc # "idle" =>
          LET hits == KeywordHits
          IN  /\ best_match = None <=> hits = {}
              /\ \A k \in hits :
                    (\A j \in hits : k <= j)
                       => best_match = Str(SIMPLE_COMMAND_DEFINITION[k].intent_key)

\* C14 witness: a text with keywords of two intents, the later listed one
\* standing first in the text, answered for the earlier listed intent
C14_Witness ==
    /\ pc = "done"
    /\ \E k, j \in KeywordHits :
          /\ k < j
          /\ KeywordAt(j) < KeywordAt(k)
          /\ best_match = Str(SIMPLE_COMMAND_DEFINITION[k].intent_key)

\* C15: normalising a normalised text changes nothing, also for a text that
\* ends with two polite endings or whose last ending stood behind a particle.
C15_NormalizeIdempotent ==
    pc # "idle" => normalize_command(normalized) = normalized

\* a name as the label pattern reads one: value characters only
IsName(s) == s # <<>> /\ \A i \in DOMAIN s : IsValueChar(s[i])

\* the text asks for the state of a named service: "<name> seo-bi-seu sang-tae"
ServiceStateOf(name) == normalized = name \o <<" ", "SEO", "BI", "SEU", " ", "SANG", "TAE">>

\* C16: "api seo-bi-seu sang-tae hwag-in-hae-jwo" is answered by the rule path
\* with intent service_status, label "api" and the command "kubectl get
\* services api"; every "<name> seo-bi-seu sang-tae" gives "kubectl get
\* services <canonical name>".
C16_NamedServiceStatus ==
    /\ (pc # "idle" /\ raw_command = <<"a", "p", "i", " ", "SEO", "BI", "SEU", " ", "SANG", "TAE", " ", "HWAK", "IN", "HAE", "JWO">>) =>
          /\ calls = <<>>
          /\ best_match = Str(<<"s", "e", "r", "v", "i", "c", "e", "_", "s", "t", "a", "t", "u", "s">>)
          /\ Get(_extract_filters(normalized), "label") = Str(<<"a", "p", "i">>)
          /\ pc # "invoke" => generated = Str(<<"k", "u", "b", "e", "c", "t", "l", " ", "g", "e", "t", " ", "s", "e", "r", "v", "i", "c", "e", "s", " ", "a", "p", "i">>)
    /\ \A n \in 1..Len(normalized) :
          LET name == SubSeq(normalized, 1, n)
          IN  (RulePath /\ IsName(name) /\ ServiceStateOf(name)) =>
                 generated = Str(<<"k", "u", "b", "e", "c", "t", "l", " ", "g", "e", "t", " ", "s", "e", "r", "v", "i", "c", "e", "s", " ">> \o CANONICAL_TARGET_MAP(name))

\* C17: the raw text "ro-geu-jom" is classified as pod_logs, no label is
\* extracted, the check before the log template sends it on, and the fallback
\* adapter is invoked.
C17_LogsPleaseDelegates ==
    (pc # "idle" /\ raw_command = <<"RO", "GEU", "JOM">>) =>
        /\ best_match = Str(PodLogs)
        /\ "label" \notin DOMAIN _extract_filters(normalized)
        /\ DelegateRequired(PodLogs, _extract_filters(normalized))
        /\ calls # <<>>

----------------------------------------------------------------------------
(* Properties of CommandExecutor.execute *)

TimedOut == exec_pc = "raised" /\ executed = Raised([type |-> "TimeoutError"])

Cancelled == exec_pc = "raised" /\ executed = Raised([type |-> "CancelledError"])

ExecuteEnded == exec_pc \in {"returned", "raised"}

\* what holds of a timeout in every state
TimeoutOutcome ==
    /\ launched <= 1
    /\ exec_pc = "waiting" => elapsed <= exec_timeout
    /\ TimedOut =>
          /\ subprocess.state = "killed"
          /\ elapsed = exec_timeout
          /\ launched = 1
          /\ executed.type # "CommandExecutionResult"
    /\ exec_pc = "returned" =>
          /\ subprocess.state = "exited"
          /\ executed.type = "CommandExecutionResult"
    /\ (subprocess # None /\ subprocess.state = "killed") => TimedOut

\* C18: a call of execute does not wait beyond its timeout; when the timeout
\* passes with the subprocess still running the subprocess is killed and the
\* call ends with TimeoutError and no CommandExecutionResult, which a call that
\* returns a result (the subprocess ended, zero exit code or not) never does;
\* the subprocess is started once, never a second time.
C18_TimeoutKills ==
    /\ []TimeoutOutcome
    /\ (exec_pc = "waiting") ~> ExecuteEnded

\* C18 witness: a call that waited its whole timeout and ended with
\* TimeoutError, the subprocess killed
C18_Witness ==
    /\ TimedOut
    /\ exec_timeout > 0
    /\ elapsed = exec_timeout
    /\ subprocess.state = "killed"

\* C19: when the subprocess ends while execute waits for it, execute returns
\* a CommandExecutionResult with the command, the exit code (-1 for a missing
\* one, a nonzero one as it is), and both streams, whatever the exit code; it
\* raises nothing.
C19_CompletedAlwaysReturns ==
    (ExecuteEnded /\ subprocess.state = "exited" /\ ~Cancelled) =>
        /\ exec_pc = "returned"
        /\ executed.type = "CommandExecutionResult"
        /\ executed.command = exec_command
        /\ executed.return_code = IF subprocess.returncode = None THEN -1
                                  ELSE subprocess.returncode.value
        /\ executed.stdout = strip(subprocess.stdout.value)
        /\ executed.stderr = strip(subprocess.stderr.value)

\* C20: when execute has ended, by return, timeout or cancellation, the
\* subprocess it started is not running any more: a call cancelled while the
\* subprocess was running has killed it.
C20_NoLeakedSubprocess ==
    ExecuteEnded => subprocess.state # "running"

----------------------------------------------------------------------------
(* Properties of concurrent invocations *)

\* what the rule path gives for the text when it runs alone: the built
\* command, or None when it delegates
AloneOutput(raw) ==
    LET n  == normalize_command(raw)
        bm == MatchIntent(n)
        filters == _extract_filters(n)
    IN  IF bm = None \/ DelegateRequired(bm.value, filters) THEN None
        ELSE Str(_build_command(bm.value, intent_map(bm.value).resource, filters))

\* C21: however the stages of concurrent invocations interleave, an invocation
\* that has built its command has built what the rule path gives for its
\* text alone, an invocation delegates exactly when it would alone, and two
\* invocations with the same text end the same way.
C21_InvocationsIndependent ==
    /\ \A i \in Invocations :
          /\ invocations[i].pc = "built" =>
                invocations[i].generated = AloneOutput(invocations[i].raw_command)
          /\ invocations[i].pc = "delegated" =>
                AloneOutput(invocations[i].raw_command) = None
          /\ invocations[i].pc = "extracted" =>
                invocations[i].filters =
                   _extract_filters(normalize_command(invocations[i].raw_command))
    /\ \A i, j \in Invocations :
          (/\ invocations[i].raw_command = invocations[j].raw_command
           /\ invocations[i].pc \in {"built", "delegated"}
           /\ invocations[j].pc \in {"built", "delegated"})
             => /\ invocations[i].pc = invocations[j].pc
                /\ invocations[i].generated = invocations[j].generated

\* C21 witness: two invocations with different filters in flight together,
\* one done while the other holds its filters and has yet to build
C21_Witness ==
    \E i, j \in Invocations :
       /\ invocations[i].pc = "built"
       /\ invocations[j].pc = "extracted"
       /\ invocations[i].filters # invocations[j].filters
       /\ invocations[i].filters # EmptyDict
       /\ invocations[j].filters # EmptyDict

----------------------------------------------------------------------------
(* Properties of the request and usage logs *)

\* execute_command is past its _log_request call
PastRequestLog == pc \in {"log_usage", "respond", "done"}

\* the table as it was when the request arrived
LogsBefore ==
    IF PastRequestLog THEN SubSeq(request_logs, 1, Len(request_logs) - 1)
    ELSE request_logs

\* C22: execute_command adds exactly one record to the request log, on the
\* sentinel path, the missing-prefix path and the success path alike, and has
\* added it when it returns or raises; a record with isSuccess=true has an
\* executedCommand and no errorMessage, one with isSuccess=false has an
\* errorMessage and no executedCommand.
C22_OneConsistentRequestLog ==
    /\ LogsBefore \in {<<>>, <<EarlierLog>>}
    /\ ~PastRequestLog => request_log_id = None /\ result = None
    /\ PastRequestLog =>
          /\ request_logs # <<>>
          /\ LoggedThisRequest
          /\ RequestLog.raw_command = raw_command
          /\ RequestLog.is_success <=>
                (generated.type = "GeneratedCommand" /\ startswith(generated.command, Kubectl))
          /\ RequestLog.is_success =>
                /\ RequestLog.executed_command = Str(generated.command)
                /\ RequestLog.error_message = None
          /\ ~RequestLog.is_success =>
                /\ RequestLog.executed_command = None
                /\ RequestLog.error_message # None
                /\ RequestLog.error_message.value # <<>>
    /\ result # None => PastRequestLog

\* C22 witness: a request that failed with a sentinel after an earlier
\* request, its record the second of the table
C22_Witness ==
    /\ pc = "done"
    /\ FallbackReturned
    /\ Len(request_logs) = 2
    /\ ~RequestLog.is_success
    /\ result.type = "raised"

\* C23: a usage record is written only for a request that succeeded with a
\* GeneratedCommand that carries usage, and then exactly one, after the
\* request's own log record and with that record's id as requestLogId; a
\* request that failed or was answered by the rule path writes none.
C23_UsageLogOnlyOnSuccess ==
    /\ Len(usage_logs) <= 1
    /\ usage_logs # <<>> =>
          /\ PastRequestLog
          /\ LoggedThisRequest
          /\ RequestLog.is_success
          /\ generated.type = "GeneratedCommand"
          /\ generated.usage # None
          /\ usage_logs[1].request_log_id = RequestLog.id
          /\ usage_logs[1].input_tokens = generated.usage.input_tokens
          /\ usage_logs[1].output_tokens = generated.usage.output_tokens
          /\ usage_logs[1].cached_tokens = generated.usage.cached_tokens
    /\ (pc \in {"respond", "done"} /\ result.type = "return" /\ ResultUsage(generated) # None)
          => Len(usage_logs) = 1
    /\ (result # None /\ result.type = "raised") => usage_logs = <<>>
    /\ RulePath => usage_logs = <<>>

\* C23 witness: a successful request after an earlier one: its usage record
\* names the second record of the request log
C23_Witness ==
    /\ pc = "done"
    /\ Len(usage_logs) = 1
    /\ Len(request_logs) = 2
    /\ usage_logs[1].request_log_id = UUID(2)
    /\ usage_logs[1].cached_tokens > 0

\* the request log as it was before execute_kubectl was called
LogsBeforeKubectl == {<<>>, <<EarlierLog>>}

\* C24: execute_kubectl writes an execution record exactly when the executor
\* returned a result and log_to_db is true; the record is a success exactly
\* when the exit code is 0 and carries stderr as its error message, none when
\* stderr is empty; when the executor raises, a timeout included, the
\* exception leaves execute_kubectl and no record is written.
C24_ExecutionLogged ==
    /\ kubectl_pc \in {"idle", "executing"} => request_logs \in LogsBeforeKubectl
    /\ kubectl_pc = "raised" =>
          /\ request_logs \in LogsBeforeKubectl
          /\ kubectl_result.type = "raised"
          /\ kubectl_result = executed
    /\ (kubectl_pc \in {"returned", "raised"} /\ TimedOut) =>
          /\ kubectl_pc = "raised"
          /\ kubectl_result = Raised([type |-> "TimeoutError"])
    /\ (kubectl_pc = "returned" /\ ~kubectl_args.log_to_db) =>
          /\ request_logs \in LogsBeforeKubectl
          /\ kubectl_result.type = "CommandExecutionResult"
    /\ (kubectl_pc = "returned" /\ kubectl_args.log_to_db) =>
          /\ kubectl_result.type = "CommandExecutionResult"
          /\ request_logs # <<>>
          /\ SubSeq(request_logs, 1, Len(request_logs) - 1) \in LogsBeforeKubectl
          /\ Last(request_logs).executed_command = Str(kubectl_args.kubectl_command)
          /\ Last(request_logs).is_success <=> (kubectl_result.return_code = 0)
          /\ kubectl_result.stderr = <<>> => Last(request_logs).error_message = None
          /\ kubectl_result.stderr # <<>> =>
                Last(request_logs).error_message = Str(kubectl_result.stderr)

\* C24 witness: a command that exited with a code other than 0 and wrote to
\* stderr is logged, after an earlier record, as a failure with that text
C24_Witness ==
    /\ kubectl_pc = "returned"
    /\ kubectl_args.log_to_db
    /\ Len(request_logs) = 2
    /\ kubectl_result.return_code = 1
    /\ ~Last(request_logs).is_success
    /\ Last(request_logs).error_message # None
    /\ Last(request_logs).raw_command = <<"PA", "DEU", " ", "MOK", "ROK">>
=============================================================================
